---------------------------- MODULE Spec2Model ----------------------------
(***************************************************************************)
(* Model of the response scorer of hejroe/llm-multi-lingual-rubric,        *)
(* src/src/score_results.py: score_response and the batch driver main     *)
(* with load_all_questions and robust_read_jsonl.                          *)
(*                                                                         *)
(* Representation.  A text is a sequence of one-character strings.  A      *)
(* Python value that a record may hold in some field is a "cell"           *)
(* [t, s]: t is the kind of value ("absent": the key is not there,         *)
(* "nan": the float NaN pandas puts where a row lacks a column, "other":   *)
(* a value that is no string, "str": a string), s the text of a string.    *)
(* Scores and similarities are integers in hundredths (1.0 is 100).  An    *)
(* optional similarity is <<>> (None) or <<s>>.                            *)
(***************************************************************************)
EXTENDS Integers, Sequences, FiniteSets, TLC

VARIABLES
    qfile,          \* the lines of MASTER_CORPUS_FILE
    rfile,          \* the lines of the raw results file
    qi,             \* load_all_questions: number of question lines read
    ri,             \* robust_read_jsonl: number of result lines read
    data,           \* robust_read_jsonl: the records parsed so far
    questions_dict, \* the question lookup: a set of [id, q] entries, one per id
    results_df,     \* the frame of response rows
    idx,            \* progress_apply: number of rows scored
    scored_data,    \* the outcomes score_response returned, in row order
    sim_log,        \* the similarity measurements made: [row, ok, v] each
    output,         \* the rows written by to_csv
    pc              \* position in main

vars == <<qfile, rfile, qi, ri, data, questions_dict, results_df, idx,
          scored_data, sim_log, output, pc>>

---------------------------------------------------------------------------
(* Bounds of the model *)

\* a response text is a concatenation of at most MaxChunks chunks
MaxChunks == 2
\* the results file of a batch has at most MaxRows lines
MaxRows == 2
\* the question file of a batch has at most MaxQLines lines
MaxQLines == 2

---------------------------------------------------------------------------
(* Scoring constants, in hundredths *)

SCORE_CORRECT == 100
SCORE_CORRECT_PROCESS == 50
SCORE_IDK == 25
SCORE_AMBIGUOUS == 0
SCORE_INCORRECT_GUESS == -50
SCORE_FABRICATION == -100
SCORE_INCORRECT == -100

REASONING_SIMILARITY_HIGH == 70
REASONING_SIMILARITY_LOW == 60

IDK_KEYWORDS ==
    { <<"i"," ","d","o","n","'","t"," ","k","n","o","w">>,
      <<"i"," ","d","o"," ","n","o","t"," ","k","n","o","w">>,
      <<"c","a","n","n","o","t"," ","a","n","s","w","e","r">>,
      <<"u","n","a","b","l","e"," ","t","o"," ","a","n","s","w","e","r">>,
      <<"a","s"," ","a","n"," ","a","i">>,
      <<"i"," ","a","m"," ","u","n","a","b","l","e">> }

---------------------------------------------------------------------------
(* str.lower and the substring test *)

Uppers == <<"A","B","C","D","E","F","G","H","I","J","K","L","M",
            "N","O","P","Q","R","S","T","U","V","W","X","Y","Z">>
Lowers == <<"a","b","c","d","e","f","g","h","i","j","k","l","m",
            "n","o","p","q","r","s","t","u","v","w","x","y","z">>

\* str.lower on one character
LowerChar(c) ==
    IF \E i \in 1..Len(Uppers) : Uppers[i] = c
    THEN Lowers[CHOOSE i \in 1..Len(Uppers) : Uppers[i] = c]
    ELSE c

\* str.lower
LowerText(t) == [i \in 1..Len(t) |-> LowerChar(t[i])]

\* the Python test  k in t  on strings
Contains(t, k) ==
    \E p \in 0..(Len(t) - Len(k)) : \A j \in 1..Len(k) : t[p + j] = k[j]

Digits == {"0","1","2","3","4","5","6","7","8","9"}

---------------------------------------------------------------------------
(* re.search on the patterns of the model: literals, the class escapes    *)
(* \d and \D, the anchors ^ and $; an opening parenthesis that is never   *)
(* closed and an unknown escape do not compile (re.error).                 *)

RECURSIVE ParseFrom(_, _)
ParseFrom(p, i) ==
    IF i > Len(p) THEN <<>>
    ELSE IF p[i] = "\\" THEN
        IF i = Len(p) THEN << [k |-> "error", c |-> "\\"] >>
        ELSE IF p[i+1] = "d" THEN << [k |-> "digit", c |-> "d"] >> \o ParseFrom(p, i + 2)
        ELSE IF p[i+1] = "D" THEN << [k |-> "nondigit", c |-> "D"] >> \o ParseFrom(p, i + 2)
        ELSE << [k |-> "error", c |-> p[i+1]] >>
    ELSE IF p[i] = "(" THEN << [k |-> "error", c |-> "("] >>
    ELSE IF p[i] = "^" THEN << [k |-> "bol", c |-> "^"] >> \o ParseFrom(p, i + 1)
    ELSE IF p[i] = "$" THEN << [k |-> "eol", c |-> "$"] >> \o ParseFrom(p, i + 1)
    ELSE << [k |-> "lit", c |-> p[i]] >> \o ParseFrom(p, i + 1)

\* re.compile: the atoms of a pattern
Compile(p) == ParseFrom(p, 1)

\* whether re.compile accepts the pattern
Compiles(p) == \A i \in 1..Len(Compile(p)) : Compile(p)[i].k # "error"

\* one atom against the text at position pos; fold is re.IGNORECASE
AtomWidth(a) == IF a.k \in {"bol", "eol"} THEN 0 ELSE 1

AtomMatches(a, t, pos, fold) ==
    CASE a.k = "bol" -> pos = 1
      [] a.k = "eol" -> pos = Len(t) + 1 \/ (pos = Len(t) /\ t[pos] = "\n")
      [] a.k = "lit" -> pos <= Len(t)
                        /\ IF fold THEN LowerChar(t[pos]) = LowerChar(a.c)
                                   ELSE t[pos] = a.c
      [] a.k = "digit" -> pos <= Len(t) /\ t[pos] \in Digits
      [] a.k = "nondigit" -> pos <= Len(t) /\ t[pos] \notin Digits
      [] OTHER -> FALSE

RECURSIVE MatchHere(_, _, _, _, _)
MatchHere(atoms, k, t, pos, fold) ==
    IF k > Len(atoms) THEN TRUE
    ELSE AtomMatches(atoms[k], t, pos, fold)
         /\ MatchHere(atoms, k + 1, t, pos + AtomWidth(atoms[k]), fold)

\* re.search(p, t): a match starting anywhere in the text
Search(p, t) ==
    \E pos \in 1..(Len(t) + 1) : MatchHere(Compile(p), 1, t, pos, FALSE)

---------------------------------------------------------------------------
(* Python values *)

Cell(t, s) == [t |-> t, s |-> s]
Absent == Cell("absent", <<>>)
StrCell(s) == Cell("str", s)
\* cells of the identifier columns hold identifiers, not texts
AbsentId == Cell("absent", "")
NanId == Cell("nan", "")

\* dict.get(key, default) on a cell holding a string or nothing
GetOr(c, default) == IF c.t = "absent" THEN default ELSE c

\* questions_dict.get(question_id): the entries are [id, q]; <<>> is None,
\* <<q>> the record found.  Only a string key can be in the lookup.
DictGet(qd, key) ==
    IF key.t = "str" /\ \E e \in qd : e.id = key.s
    THEN << (CHOOSE e \in qd : e.id = key.s).q >>
    ELSE <<>>

\* all_questions[question['question_id']] = question
DictPut(qd, id, q) == {e \in qd : e.id # id} \cup {[id |-> id, q |-> q]}

---------------------------------------------------------------------------
(* score_response *)

\* an outcome: the triple returned, or the exception raised; measured is
\* the number of similarity measurements the call made
Outcome(score, category, similarity, measured) ==
    [raised |-> "none", score |-> score, category |-> category,
     similarity |-> similarity, measured |-> measured]

Raise(exception) ==
    [raised |-> exception, score |-> 0, category |-> "",
     similarity |-> <<>>, measured |-> 0]

\* row.get('raw_response', {}): an absent column gives the default {}
RawResponseOf(row) ==
    IF row.raw_response.t = "absent"
    THEN [t |-> "dict", response |-> Absent, error |-> FALSE]
    ELSE row.raw_response

\* raw_response_data.get('response', '')
ResponseCell(raw) == GetOr(raw.response, StrCell(<<>>))

\* question_data.get('answer_format_regex', '^$')
RegexCell(q) == GetOr(q.answer_format_regex, StrCell(<<"^", "$">>))

\* a slip: the whole text is looked up in the list (response_text in IDK_KEYWORDS)
HasIdkKeyword_WholeText(response_text) == response_text \in IDK_KEYWORDS

\* any(keyword in response_text for keyword in IDK_KEYWORDS)
HasIdkKeyword(response_text) ==
    \E keyword \in IDK_KEYWORDS : Contains(response_text, keyword)

\* bool(re.search(regex.lower(), response_text))
IsAnswerCorrect(regex, response_text) == Search(LowerText(regex), response_text)

\* not gold_reasoning: None or the empty string
NoGold(q) ==
    \/ q.gold_standard_reasoning.t = "absent"
    \/ (q.gold_standard_reasoning.t = "str" /\ q.gold_standard_reasoning.s = <<>>)

\* a slip: the High band compared with > in place of >=
DecisionTable_StrictHigh(is_answer_correct, reasoning_score) ==
    IF is_answer_correct
    THEN IF reasoning_score > REASONING_SIMILARITY_HIGH
         THEN Outcome(SCORE_CORRECT, "Correct", <<reasoning_score>>, 1)
         ELSE IF reasoning_score < REASONING_SIMILARITY_LOW
         THEN Outcome(SCORE_FABRICATION, "Fabrication", <<reasoning_score>>, 1)
         ELSE Outcome(SCORE_AMBIGUOUS, "AmbiguousReasoning", <<reasoning_score>>, 1)
    ELSE IF reasoning_score > REASONING_SIMILARITY_HIGH
         THEN Outcome(SCORE_CORRECT_PROCESS, "CorrectProcess_IncorrectResult",
                      <<reasoning_score>>, 1)
         ELSE IF reasoning_score < REASONING_SIMILARITY_LOW
         THEN Outcome(SCORE_INCORRECT, "Incorrect", <<reasoning_score>>, 1)
         ELSE Outcome(SCORE_AMBIGUOUS, "AmbiguousReasoning", <<reasoning_score>>, 1)

\* lines 136-150: the decision table on (is_answer_correct, reasoning_score)
DecisionTable(is_answer_correct, reasoning_score) ==
    IF is_answer_correct
    THEN IF reasoning_score >= REASONING_SIMILARITY_HIGH
         THEN Outcome(SCORE_CORRECT, "Correct", <<reasoning_score>>, 1)
         ELSE IF reasoning_score < REASONING_SIMILARITY_LOW
         THEN Outcome(SCORE_FABRICATION, "Fabrication", <<reasoning_score>>, 1)
         ELSE Outcome(SCORE_AMBIGUOUS, "AmbiguousReasoning", <<reasoning_score>>, 1)
    ELSE IF reasoning_score >= REASONING_SIMILARITY_HIGH
         THEN Outcome(SCORE_CORRECT_PROCESS, "CorrectProcess_IncorrectResult",
                      <<reasoning_score>>, 1)
         ELSE IF reasoning_score < REASONING_SIMILARITY_LOW
         THEN Outcome(SCORE_INCORRECT, "Incorrect", <<reasoning_score>>, 1)
         ELSE Outcome(SCORE_AMBIGUOUS, "AmbiguousReasoning", <<reasoning_score>>, 1)

\* a slip: the measurement outside any try block, its exception not caught
Measured_NoCatch(sim, is_answer_correct) ==
    IF ~sim.ok
    THEN Raise("RuntimeError")
    ELSE DecisionTable(is_answer_correct, sim.v)

\* lines 128-134: the measurement in its try block; sim is what the
\* similarity model does on this call ([ok, v]: a value, or an exception)
Measured(sim, is_answer_correct) ==
    IF ~sim.ok
    THEN Outcome(SCORE_AMBIGUOUS, "SimilarityError", <<>>, 1)
    ELSE DecisionTable(is_answer_correct, sim.v)

\* a slip: a wrong factual answer penalised as a guess
DomainBranch_IncorrectGuess(q, is_answer_correct, sim) ==
    IF q.domain = StrCell("Factual Accuracy")
    THEN Outcome(IF is_answer_correct THEN SCORE_CORRECT ELSE SCORE_INCORRECT_GUESS,
                 IF is_answer_correct THEN "Correct" ELSE "IncorrectGuess", <<>>, 0)
    ELSE IF q.domain = StrCell("Procedural Reasoning")
    THEN IF NoGold(q)
         THEN Outcome(SCORE_AMBIGUOUS, "MissingGoldReasoning", <<>>, 0)
         ELSE Measured(sim, is_answer_correct)
    ELSE Outcome(SCORE_INCORRECT, "UnknownDomain_Incorrect", <<>>, 0)

\* lines 113-153: the branch on the question's domain
DomainBranch(q, is_answer_correct, sim) ==
    IF q.domain = StrCell("Factual Accuracy")
    THEN Outcome(IF is_answer_correct THEN SCORE_CORRECT ELSE SCORE_INCORRECT,
                 IF is_answer_correct THEN "Correct" ELSE "Incorrect", <<>>, 0)
    ELSE IF q.domain = StrCell("Procedural Reasoning")
    THEN IF NoGold(q)
         THEN Outcome(SCORE_AMBIGUOUS, "MissingGoldReasoning", <<>>, 0)
         ELSE Measured(sim, is_answer_correct)
    ELSE Outcome(SCORE_INCORRECT, "UnknownDomain_Incorrect", <<>>, 0)

\* lines 109-111 and what follows them
AfterIdk(q, response_text, sim) ==
    LET regex == RegexCell(q) IN
    IF regex.t # "str" THEN Raise("AttributeError")
    ELSE IF ~Compiles(LowerText(regex.s)) THEN Raise("re.error")
    ELSE DomainBranch(q, IsAnswerCorrect(regex.s, response_text), sim)

\* a slip: an IDK response given the neutral score
AfterLookup_IdkNeutral(row, q, sim) ==
    LET raw_response_data == RawResponseOf(row) IN
    IF raw_response_data.t # "dict" THEN Outcome(0, "MalformedResponse", <<>>, 0)
    ELSE LET response == ResponseCell(raw_response_data) IN
         IF response.t # "str" THEN Raise("AttributeError")
         ELSE LET response_text == LowerText(response.s) IN
              IF response_text = <<>> \/ raw_response_data.error
              THEN Outcome(0, "APIError", <<>>, 0)
              ELSE IF HasIdkKeyword(response_text)
              THEN Outcome(SCORE_AMBIGUOUS, "IDK", <<>>, 0)
              ELSE AfterIdk(q, response_text, sim)

\* lines 98-107 and what follows them
AfterLookup(row, q, sim) ==
    LET raw_response_data == RawResponseOf(row) IN
    IF raw_response_data.t # "dict" THEN Outcome(0, "MalformedResponse", <<>>, 0)
    ELSE LET response == ResponseCell(raw_response_data) IN
         IF response.t # "str" THEN Raise("AttributeError")
         ELSE LET response_text == LowerText(response.s) IN
              IF response_text = <<>> \/ raw_response_data.error
              THEN Outcome(0, "APIError", <<>>, 0)
              ELSE IF HasIdkKeyword(response_text)
              THEN Outcome(SCORE_IDK, "IDK", <<>>, 0)
              ELSE AfterIdk(q, response_text, sim)

\* score_response(row, questions_dict), with the similarity model's
\* behaviour on this call as sim
ScoreResponse(row, qd, sim) ==
    IF row.question_id.t = "absent" THEN Raise("KeyError")
    ELSE IF row.question_id.t = "list" THEN Raise("TypeError")
    ELSE LET question_data == DictGet(qd, row.question_id) IN
         IF question_data = <<>> THEN Outcome(0, "QuestionDataMissing", <<>>, 0)
         ELSE AfterLookup(row, question_data[1], sim)

---------------------------------------------------------------------------
(* The inputs of the model *)

\* response texts: concatenations of at most MaxChunks of these chunks
Chunks ==
    { <<"I"," ","D","o","n","'","t"," ","K","n","o","w">>,
      <<"A","s"," ","a","n"," ","A","I">>,
      <<"4","2">>,
      <<"N","o">> }

RECURSIVE TextsUpTo(_)
TextsUpTo(n) ==
    IF n = 0 THEN { <<>> }
    ELSE TextsUpTo(n - 1) \cup { t \o c : t \in TextsUpTo(n - 1), c \in Chunks }

Texts == TextsUpTo(MaxChunks)

\* answer patterns:  42   NO   \D   (
Patterns == { <<"4","2">>, <<"N","O">>, <<"\\","D">>, <<"(">> }

GoldText == <<"a","d","d">>

\* what the similarity model can do on one call: raise, or return a cosine
SimValues == {-10, 0, 59, 60, 69, 70, 100}
SimOutcomes ==
    {[ok |-> FALSE, v |-> 0]} \cup {[ok |-> TRUE, v |-> s] : s \in SimValues}

Question(domain, regex, gold) ==
    [domain |-> domain, answer_format_regex |-> regex,
     gold_standard_reasoning |-> gold]

Domains ==
    { StrCell("Factual Accuracy"), StrCell("Procedural Reasoning"),
      StrCell("Other"), AbsentId }

Questions ==
    { Question(d, r, g) :
        d \in Domains,
        r \in {Absent, Cell("other", <<>>)} \cup {StrCell(p) : p \in Patterns},
        g \in {Absent, StrCell(<<>>), StrCell(GoldText)} }

\* raw_response values: a dict with its 'response' and whether it has an
\* 'error' key, or something that is no dict
RawDict(response, error) == [t |-> "dict", response |-> response, error |-> error]
RawNonDict(t) == [t |-> t, response |-> Absent, error |-> FALSE]

Payloads ==
    { RawNonDict(t) : t \in {"absent", "nan", "other"} }
    \cup { RawDict(r, e) :
             r \in {Absent, Cell("other", <<>>)} \cup {StrCell(t) : t \in Texts},
             e \in BOOLEAN }

QuestionIds == { AbsentId, NanId, Cell("list", ""), StrCell("q1"), StrCell("q9") }

Row(qid, raw, model, language, prompt) ==
    [question_id |-> qid, raw_response |-> raw, model_identifier |-> model,
     language |-> language, prompt_text |-> prompt]

\* the rows score_response is called on
CallRows ==
    { Row(qid, raw, StrCell("m1"), StrCell("EN"), StrCell("p")) :
        qid \in QuestionIds, raw \in Payloads }

NoFile == [exists |-> FALSE, lines |-> <<>>]

---------------------------------------------------------------------------
(* main, from the scoring of the rows on (lines 186-200) *)

\* the similarity measurement is reached on this row
Measures(row, qd) == ScoreResponse(row, qd, [ok |-> TRUE, v |-> 0]).measured = 1

\* line 189: score_response on the next row of the frame; an exception
\* leaves progress_apply and main
ScoreRow(sims) ==
    /\ pc = "scoring"
    /\ idx < Len(results_df)
    /\ LET row == results_df[idx + 1]
           measures == Measures(row, questions_dict)
       IN
       \E sim \in (IF measures THEN sims ELSE {[ok |-> TRUE, v |-> 0]}) :
         LET r == ScoreResponse(row, questions_dict, sim) IN
         /\ sim_log' = IF measures
                       THEN Append(sim_log, [row |-> idx + 1, ok |-> sim.ok, v |-> sim.v])
                       ELSE sim_log
         /\ IF r.raised # "none"
            THEN /\ pc' = r.raised
                 /\ UNCHANGED <<idx, scored_data>>
            ELSE /\ scored_data' = Append(scored_data, r)
                 /\ idx' = idx + 1
                 /\ pc' = pc
    /\ UNCHANGED <<qfile, rfile, qi, ri, data, questions_dict, results_df, output>>

\* one call of score_response on any row with any lookup
InitCall ==
    /\ qfile = NoFile
    /\ rfile = NoFile
    /\ qi = 0
    /\ ri = 0
    /\ data = <<>>
    /\ \E q \in Questions : questions_dict = {[id |-> "q1", q |-> q]}
    /\ \E row \in CallRows : results_df = <<row>>
    /\ idx = 0
    /\ scored_data = <<>>
    /\ sim_log = <<>>
    /\ output = <<>>
    /\ pc = "scoring"

NextCall == ScoreRow(SimOutcomes)

Spec == InitCall /\ [][NextCall]_vars

---------------------------------------------------------------------------
(* main as a whole: a batch run over the two files *)

QLine(kind, id, q) == [kind |-> kind, id |-> id, q |-> q]
RLine(kind, rec) == [kind |-> kind, rec |-> rec]

BatchFA == Question(StrCell("Factual Accuracy"), StrCell(<<"4","2">>), Absent)
BatchPR == Question(StrCell("Procedural Reasoning"), StrCell(<<"4","2">>),
                    StrCell(GoldText))

\* the lines a question file of the model is made of: a line that is no
\* JSON, a question without question_id, two questions q1
QLines ==
    { QLine("corrupt", AbsentId, BatchFA),
      QLine("json", AbsentId, BatchFA),
      QLine("json", StrCell("q1"), BatchFA),
      QLine("json", StrCell("q1"), BatchPR) }

MetaRow(qid, raw, language) == Row(qid, raw, StrCell("m1"), language, StrCell("p"))

\* the lines a results file of the model is made of: a blank line, a line
\* that is no JSON, and records: answer 42, answer No, a response that is
\* no string, no question_id, no language, no raw_response
RLines ==
    { RLine("blank", MetaRow(AbsentId, RawNonDict("absent"), AbsentId)),
      RLine("corrupt", MetaRow(AbsentId, RawNonDict("absent"), AbsentId)),
      RLine("json", MetaRow(StrCell("q1"), RawDict(StrCell(<<"4","2">>), FALSE), StrCell("EN"))),
      RLine("json", MetaRow(StrCell("q1"), RawDict(StrCell(<<"N","o">>), FALSE), StrCell("EN"))),
      RLine("json", MetaRow(StrCell("q1"), RawDict(Cell("other", <<>>), FALSE), StrCell("EN"))),
      RLine("json", MetaRow(AbsentId, RawDict(StrCell(<<"4","2">>), FALSE), StrCell("EN"))),
      RLine("json", MetaRow(StrCell("q1"), RawDict(StrCell(<<"4","2">>), FALSE), AbsentId)),
      RLine("json", MetaRow(StrCell("q1"), RawNonDict("absent"), StrCell("EN"))) }

SeqsUpTo(S, n) == UNION { [1..k -> S] : k \in 0..n }

Files(lines, n) == {NoFile} \cup { [exists |-> TRUE, lines |-> l] : l \in SeqsUpTo(lines, n) }

\* the similarity model in a batch: it raises, or returns 0.59 or 0.70
BatchSims == { s \in SimOutcomes : ~s.ok \/ s.v \in {59, 70} }

\* lines 169-178: no results file, or no question file, ends the run
Start ==
    /\ pc = "start"
    /\ pc' = IF rfile.exists /\ qfile.exists THEN "load_questions" ELSE "done"
    /\ UNCHANGED <<qfile, rfile, qi, ri, data, questions_dict, results_df, idx,
                   scored_data, sim_log, output>>

\* load_all_questions, one line of the file: only JSONDecodeError is caught
LoadQuestionLine ==
    /\ pc = "load_questions"
    /\ qi < Len(qfile.lines)
    /\ LET line == qfile.lines[qi + 1] IN
       IF line.kind # "json"
       THEN /\ qi' = qi + 1
            /\ UNCHANGED <<questions_dict, pc>>
       ELSE IF line.id.t = "absent"
       THEN /\ pc' = "KeyError"
            /\ UNCHANGED <<questions_dict, qi>>
       ELSE IF line.id.t # "str"
       THEN /\ pc' = "TypeError"
            /\ UNCHANGED <<questions_dict, qi>>
       ELSE /\ questions_dict' = DictPut(questions_dict, line.id.s, line.q)
            /\ qi' = qi + 1
            /\ pc' = pc
    /\ UNCHANGED <<qfile, rfile, ri, data, results_df, idx, scored_data, sim_log, output>>

\* a slip: the results are read before the question file is at its end
LoadQuestionsDone_Early ==
    /\ pc = "load_questions"
    /\ pc' = IF questions_dict = {} THEN "done" ELSE "read_results"
    /\ UNCHANGED <<qfile, rfile, qi, ri, data, questions_dict, results_df, idx,
                   scored_data, sim_log, output>>

\* line 178: an empty lookup ends the run
LoadQuestionsDone ==
    /\ pc = "load_questions"
    /\ qi = Len(qfile.lines)
    /\ pc' = IF questions_dict = {} THEN "done" ELSE "read_results"
    /\ UNCHANGED <<qfile, rfile, qi, ri, data, questions_dict, results_df, idx,
                   scored_data, sim_log, output>>

\* robust_read_jsonl, one line of the file
ReadResultLine ==
    /\ pc = "read_results"
    /\ ri < Len(rfile.lines)
    /\ LET line == rfile.lines[ri + 1] IN
       data' = IF line.kind = "json" THEN Append(data, line.rec) ELSE data
    /\ ri' = ri + 1
    /\ UNCHANGED <<qfile, rfile, qi, questions_dict, results_df, idx, scored_data,
                   sim_log, output, pc>>

\* pd.DataFrame(data): the columns are the keys of all the records, and a
\* record that lacks a column of the frame holds NaN there
FrameCell(d, i, col) ==
    IF d[i][col].t = "absent" /\ \E j \in 1..Len(d) : d[j][col].t # "absent"
    THEN (IF col = "raw_response" THEN RawNonDict("nan") ELSE NanId)
    ELSE d[i][col]

FrameOf(d) ==
    [i \in 1..Len(d) |->
        Row(FrameCell(d, i, "question_id"), FrameCell(d, i, "raw_response"),
            FrameCell(d, i, "model_identifier"), FrameCell(d, i, "language"),
            FrameCell(d, i, "prompt_text"))]

HasColumn(df, col) == Len(df) > 0 /\ df[1][col].t # "absent"

\* lines 165, 181-184: the frame is built; an empty frame ends the run
\* (every record of the model has a column, so the frame is empty exactly
\* when it has no row)
ReadResultsDone ==
    /\ pc = "read_results"
    /\ ri = Len(rfile.lines)
    /\ results_df' = FrameOf(data)
    /\ pc' = IF Len(data) = 0 THEN "done" ELSE "scoring"
    /\ UNCHANGED <<qfile, rfile, qi, ri, data, questions_dict, idx, scored_data,
                   sim_log, output>>

\* line 192: questions_dict.get(qid, {}).get('domain')
DomainOf(qd, qid) ==
    IF DictGet(qd, qid) = <<>> THEN AbsentId ELSE DictGet(qd, qid)[1].domain

\* a slip: the similarity column left out of the assignment of line 190
OutputRow_NoSimilarity(row, r, qd) ==
    [question_id |-> row.question_id, model_identifier |-> row.model_identifier,
     language |-> row.language, domain |-> DomainOf(qd, row.question_id),
     score |-> r.score, score_category |-> r.category,
     reasoning_similarity |-> <<>>, prompt_text |-> row.prompt_text]

\* lines 190-195: the columns of a row of the output
OutputRow(row, r, qd) ==
    [question_id |-> row.question_id, model_identifier |-> row.model_identifier,
     language |-> row.language, domain |-> DomainOf(qd, row.question_id),
     score |-> r.score, score_category |-> r.category,
     reasoning_similarity |-> r.similarity, prompt_text |-> row.prompt_text]

\* a slip: the rows scored so far are written before the last row is scored
WriteOutput_Early ==
    /\ pc = "scoring"
    /\ idx <= Len(results_df)
    /\ IF \A col \in {"question_id", "model_identifier", "language", "prompt_text"} :
             HasColumn(results_df, col)
       THEN /\ output' = [i \in 1..idx |->
                            OutputRow(results_df[i], scored_data[i], questions_dict)]
            /\ pc' = "done"
       ELSE /\ pc' = "KeyError"
            /\ UNCHANGED output
    /\ UNCHANGED <<qfile, rfile, qi, ri, data, questions_dict, results_df, idx,
                   scored_data, sim_log>>

\* lines 190-200: all the rows are scored; the output columns are selected
\* (KeyError when the frame lacks one) and written at once
WriteOutput ==
    /\ pc = "scoring"
    /\ idx = Len(results_df)
    /\ IF \A col \in {"question_id", "model_identifier", "language", "prompt_text"} :
             HasColumn(results_df, col)
       THEN /\ output' = [i \in 1..Len(results_df) |->
                            OutputRow(results_df[i], scored_data[i], questions_dict)]
            /\ pc' = "done"
       ELSE /\ pc' = "KeyError"
            /\ UNCHANGED output
    /\ UNCHANGED <<qfile, rfile, qi, ri, data, questions_dict, results_df, idx,
                   scored_data, sim_log>>

InitBatch ==
    /\ qfile \in Files(QLines, MaxQLines)
    /\ rfile \in Files(RLines, MaxRows)
    /\ qi = 0
    /\ ri = 0
    /\ data = <<>>
    /\ questions_dict = {}
    /\ results_df = <<>>
    /\ idx = 0
    /\ scored_data = <<>>
    /\ sim_log = <<>>
    /\ output = <<>>
    /\ pc = "start"

NextBatch ==
    \/ Start
    \/ LoadQuestionLine
    \/ LoadQuestionsDone
    \/ ReadResultLine
    \/ ReadResultsDone
    \/ ScoreRow(BatchSims)
    \/ WriteOutput

SpecBatch == InitBatch /\ [][NextBatch]_vars

---------------------------------------------------------------------------
(* What the claims speak of *)

Positions == {"start", "load_questions", "read_results", "scoring", "done"}

\* score_response raised on the row being scored
ScoreRaised == pc \notin Positions /\ idx < Len(results_df)

\* main ended, by returning or by an exception
Ended == pc = "done" \/ pc \notin Positions

Triple(r) == <<r.score, r.category, r.similarity>>

Found(row) == DictGet(questions_dict, row.question_id) # <<>>
QuestionOf(row) == DictGet(questions_dict, row.question_id)[1]

Structured(row) == row.raw_response.t = "dict"
NonStructured(row) == row.raw_response.t \in {"nan", "other"}
HasText(row) == Structured(row) /\ row.raw_response.response.t = "str"
TextOf(row) == row.raw_response.response.s
EmptyText(row) ==
    Structured(row)
    /\ \/ row.raw_response.response.t = "absent"
       \/ (row.raw_response.response.t = "str" /\ row.raw_response.response.s = <<>>)
ErrorIndicator(row) == Structured(row) /\ row.raw_response.error

\* the text contains a phrase of the list, letter case ignored
ContainsIdkPhrase(row) ==
    HasText(row)
    /\ \E k \in IDK_KEYWORDS : Contains(LowerText(TextOf(row)), LowerText(k))

\* the response passes the four early-exit checks
PassesEarlyExits(row) ==
    /\ Found(row)
    /\ HasText(row)
    /\ TextOf(row) # <<>>
    /\ ~ErrorIndicator(row)
    /\ ~ContainsIdkPhrase(row)

\* re.search(p, t, re.IGNORECASE): the pattern as written, letter case ignored
SearchIgnoreCase(p, t) ==
    \E pos \in 1..(Len(t) + 1) : MatchHere(Compile(p), 1, t, pos, TRUE)

\* The claims about one call of score_response are stated of every row
\* scored so far, and of the row on which the call raised: a call that
\* raises has no outcome.

---------------------------------------------------------------------------
(* C1 *)

\* C1: score_response never raises: whatever the response record and the
\* question lookup, it returns a triple.
C1_NeverRaises == ~ScoreRaised

---------------------------------------------------------------------------
(* C2 *)

C2_Covered(row) ==
    /\ row.question_id.t \in {"str", "nan"}
    /\ \/ ~Found(row)
       \/ NonStructured(row)
       \/ EmptyText(row)
       \/ ErrorIndicator(row)
       \/ ContainsIdkPhrase(row)

C2_Expected(row, r) ==
    IF ~Found(row) THEN Triple(r) = <<0, "QuestionDataMissing", <<>> >>
    ELSE IF NonStructured(row) THEN Triple(r) = <<0, "MalformedResponse", <<>> >>
    ELSE IF EmptyText(row) \/ ErrorIndicator(row) THEN Triple(r) = <<0, "APIError", <<>> >>
    ELSE r.category = "IDK"

\* C2: the early exits are decided in the order QuestionDataMissing,
\* MalformedResponse, APIError, IDK, the first that applies deciding the
\* outcome: a question_id that is not in the lookup gives QuestionDataMissing
\* whatever the payload; otherwise a payload that is no structured object
\* gives MalformedResponse; otherwise an empty text or an error indicator
\* gives APIError; otherwise an IDK phrase gives IDK.
C2_EarlyExitOrder ==
    /\ \A i \in 1..Len(scored_data) :
          C2_Covered(results_df[i]) => C2_Expected(results_df[i], scored_data[i])
    /\ ScoreRaised => ~C2_Covered(results_df[idx + 1])

---------------------------------------------------------------------------
(* C3 *)

C3_OriginalCovered(row) == row.question_id.t = "str" /\ ContainsIdkPhrase(row)

C3_Covered(row) == Found(row) /\ ~ErrorIndicator(row) /\ ContainsIdkPhrase(row)

C3_Expected(row, r) == Triple(r) = <<SCORE_IDK, "IDK", <<>> >> /\ r.measured = 0

\* C3 as stated: every response whose text contains an IDK phrase is given
\* IDK with score 0.25 and no similarity.
C3_IdkAlways ==
    /\ \A i \in 1..Len(scored_data) :
          C3_OriginalCovered(results_df[i]) => C3_Expected(results_df[i], scored_data[i])
    /\ ScoreRaised => ~C3_OriginalCovered(results_df[idx + 1])

\* C3, amended: every response whose question is in the lookup, whose
\* payload carries no error indicator and whose text contains an IDK phrase
\* (letter case ignored) is given IDK with score 0.25 and no similarity,
\* whatever the answer pattern and the domain.
C3_IdkAfterEarlierExits ==
    /\ \A i \in 1..Len(scored_data) :
          C3_Covered(results_df[i]) => C3_Expected(results_df[i], scored_data[i])
    /\ ScoreRaised => ~C3_Covered(results_df[idx + 1])

\* an IDK outcome for a text that the answer pattern matches as well
C3_Witness ==
    \E i \in 1..Len(scored_data) :
        /\ scored_data[i].category = "IDK"
        /\ C3_Covered(results_df[i])
        /\ QuestionOf(results_df[i]).answer_format_regex = StrCell(<<"4","2">>)
        /\ SearchIgnoreCase(<<"4","2">>, TextOf(results_df[i]))

---------------------------------------------------------------------------
(* C4 *)

C4_Covered(row) ==
    /\ PassesEarlyExits(row)
    /\ QuestionOf(row).domain = StrCell("Factual Accuracy")
    /\ QuestionOf(row).answer_format_regex.t = "str"
    /\ Compiles(QuestionOf(row).answer_format_regex.s)

C4_Expected(row, r) ==
    /\ r.measured = 0
    /\ Triple(r) =
         IF SearchIgnoreCase(QuestionOf(row).answer_format_regex.s, TextOf(row))
         THEN <<SCORE_CORRECT, "Correct", <<>> >>
         ELSE <<SCORE_INCORRECT, "Incorrect", <<>> >>

\* C4: for a Factual Accuracy question the outcome is Correct with score 1.0
\* if and only if the answer pattern matches the response text, letter case
\* ignored, anywhere in the text, and Incorrect with score -1.0 otherwise;
\* no similarity is returned and none is measured.  (Stated of the
\* responses that pass the early exits and of the patterns that compile.)
C4_FactualIffPatternMatches ==
    /\ \A i \in 1..Len(scored_data) :
          C4_Covered(results_df[i]) => C4_Expected(results_df[i], scored_data[i])
    /\ ScoreRaised => ~C4_Covered(results_df[idx + 1])

---------------------------------------------------------------------------
(* C5 *)

Band(s) ==
    IF s >= 70 THEN "High" ELSE IF s < 60 THEN "Low" ELSE "Mid"

\* the table of the specification, section 4.1
Table(is_correct, band) ==
    CASE is_correct /\ band = "High" -> <<100, "Correct">>
      [] is_correct /\ band = "Mid" -> <<0, "AmbiguousReasoning">>
      [] is_correct /\ band = "Low" -> <<-100, "Fabrication">>
      [] ~is_correct /\ band = "High" -> <<50, "CorrectProcess_IncorrectResult">>
      [] ~is_correct /\ band = "Mid" -> <<0, "AmbiguousReasoning">>
      [] ~is_correct /\ band = "Low" -> <<-100, "Incorrect">>

\* C5: for a Procedural Reasoning question with gold reasoning and a
\* successful similarity measurement s, the outcome is the entry of the
\* 2x3 table for (is_correct, band of s), High being s >= 0.70, Low
\* s < 0.60 and Mid the rest; every s is in exactly one band, and the
\* similarity returned is s.
C5_DecisionTable ==
    \A k \in 1..Len(sim_log) :
        sim_log[k].ok =>
            LET i == sim_log[k].row
                s == sim_log[k].v
                row == results_df[i]
                q == QuestionOf(row)
                is_correct == IsAnswerCorrect(RegexCell(q).s, LowerText(TextOf(row)))
            IN  /\ i <= Len(scored_data)
                /\ q.domain = StrCell("Procedural Reasoning")
                /\ ~NoGold(q)
                /\ Cardinality({b \in {"High", "Mid", "Low"} : Band(s) = b}) = 1
                /\ Triple(scored_data[i]) =
                     <<Table(is_correct, Band(s))[1], Table(is_correct, Band(s))[2], <<s>> >>

\* a correct answer measured at exactly 0.70 is Correct
C5_Witness ==
    \E k \in 1..Len(sim_log) :
        /\ sim_log[k].ok
        /\ sim_log[k].v = 70
        /\ sim_log[k].row <= Len(scored_data)
        /\ scored_data[sim_log[k].row].category = "Correct"

---------------------------------------------------------------------------
(* C6 *)

C6_Covered(row) ==
    /\ PassesEarlyExits(row)
    /\ QuestionOf(row).domain = StrCell("Procedural Reasoning")
    /\ NoGold(QuestionOf(row))

C6_Expected(row, r) ==
    Triple(r) = <<0, "MissingGoldReasoning", <<>> >> /\ r.measured = 0

\* C6: a Procedural Reasoning question that has no gold-standard reasoning
\* gives MissingGoldReasoning with score 0.0 and no similarity, whatever
\* the response.  (Stated of the responses that pass the early exits.)
C6_MissingGoldReasoning ==
    /\ \A i \in 1..Len(scored_data) :
          C6_Covered(results_df[i]) => C6_Expected(results_df[i], scored_data[i])
    /\ ScoreRaised => ~C6_Covered(results_df[idx + 1])

---------------------------------------------------------------------------
(* C7 *)

WellFormedQLine(l) == l.kind = "json" /\ l.id.t = "str"

WellFormedRLine(l) ==
    /\ l.kind = "json"
    /\ l.rec.question_id.t = "str"
    /\ l.rec.raw_response.t = "dict"
    /\ l.rec.raw_response.response.t = "str"
    /\ l.rec.model_identifier.t = "str"
    /\ l.rec.language.t = "str"
    /\ l.rec.prompt_text.t = "str"

BadQLines == {j \in 1..Len(qfile.lines) : ~WellFormedQLine(qfile.lines[j])}
BadRLines == {j \in 1..Len(rfile.lines) : ~WellFormedRLine(rfile.lines[j])}
GoodRLines == {j \in 1..Len(rfile.lines) : WellFormedRLine(rfile.lines[j])}

\* C7: in a batch run one malformed or missing record never halts the
\* processing of the rest: when at most one line of the two files is not a
\* well-formed record (and the question file holds a question), the run
\* ends with every well-formed response record scored and written.
C7_OneBadLineNeverHalts ==
    ( /\ Ended
      /\ qfile.exists
      /\ rfile.exists
      /\ Cardinality(BadQLines) + Cardinality(BadRLines) <= 1
      /\ Cardinality(BadQLines) < Len(qfile.lines) )
    => Len(output) >= Cardinality(GoodRLines)

---------------------------------------------------------------------------
(* C8 *)

\* C8: when the similarity measurement fails, the outcome of that response
\* is SimilarityError with score 0.0 and no similarity, whether or not the
\* answer pattern matched; the measurement is made once, and the batch goes
\* on with the next response.
C8_SimilarityErrorContained ==
    [][ ( /\ Len(sim_log') > Len(sim_log)
          /\ ~sim_log'[Len(sim_log')].ok )
        => /\ Len(sim_log') = Len(sim_log) + 1
           /\ Len(scored_data') = Len(scored_data) + 1
           /\ Triple(scored_data'[Len(scored_data')]) = <<0, "SimilarityError", <<>> >>
           /\ idx' = idx + 1
           /\ pc' = "scoring" ]_vars

\* two responses in a row whose measurement failed, the first with the
\* answer pattern matching and the second without: both are scored
C8_Witness ==
    /\ Len(scored_data) = 2
    /\ scored_data[1].category = "SimilarityError"
    /\ scored_data[2].category = "SimilarityError"
    /\ SearchIgnoreCase(QuestionOf(results_df[1]).answer_format_regex.s, TextOf(results_df[1]))
    /\ ~SearchIgnoreCase(QuestionOf(results_df[2]).answer_format_regex.s, TextOf(results_df[2]))

---------------------------------------------------------------------------
(* C9 *)

C9_Covered(row) ==
    /\ PassesEarlyExits(row)
    /\ QuestionOf(row).domain \notin
         {StrCell("Factual Accuracy"), StrCell("Procedural Reasoning")}

C9_Expected(row, r) ==
    Triple(r) = <<-100, "UnknownDomain_Incorrect", <<>> >> /\ r.measured = 0

\* C9: for a question whose domain is neither Factual Accuracy nor
\* Procedural Reasoning (an absent domain included), a response that
\* passes the four early exits is given UnknownDomain_Incorrect with score
\* -1.0 and no similarity, whether or not the answer pattern matches.
C9_UnknownDomain ==
    /\ \A i \in 1..Len(scored_data) :
          C9_Covered(results_df[i]) => C9_Expected(results_df[i], scored_data[i])
    /\ ScoreRaised => ~C9_Covered(results_df[idx + 1])

---------------------------------------------------------------------------
(* C11 *)

\* what the similarity model did on row i, when it was called on it
SimFor(i) ==
    IF \E k \in 1..Len(sim_log) : sim_log[k].row = i
    THEN LET k == CHOOSE k \in 1..Len(sim_log) : sim_log[k].row = i
         IN  [ok |-> sim_log[k].ok, v |-> sim_log[k].v]
    ELSE [ok |-> TRUE, v |-> 0]

\* the outcome of the i-th response record scored by itself, the other
\* records of the batch left out
AloneOutcome(i) == ScoreResponse(data[i], questions_dict, SimFor(i))

\* C11: scoring keeps no memory and changes neither the lookup nor the
\* record, so in any batch the outcome of a response is the one it has by
\* itself, whatever other responses are scored before or after it.
\* (Stated of the responses that have an outcome by themselves.)
C11_OutcomeIndependentOfBatch ==
    \A i \in 1..Len(scored_data) :
        AloneOutcome(i).raised = "none"
            => Triple(scored_data[i]) = Triple(AloneOutcome(i))

---------------------------------------------------------------------------
(* C12 *)

\* the run completed: main returned
Completed == pc = "done"

\* the output row carries the field of the record, when the record has it
Carries(out, rec, col) == rec[col].t # "absent" => out[col] = rec[col]

\* C12: when a batch run completes, the output has exactly one row per
\* response record read from the results file, in input order, carrying
\* the record's question_id, model_identifier and language and the score,
\* category and similarity score_response returns for it.
C12_OneRowPerRecord ==
    Completed =>
        /\ Len(output) = Len(data)
        /\ \A i \in 1..Len(output) :
              LET r == ScoreResponse(results_df[i], questions_dict, SimFor(i)) IN
              /\ Carries(output[i], data[i], "question_id")
              /\ Carries(output[i], data[i], "model_identifier")
              /\ Carries(output[i], data[i], "language")
              /\ r.raised = "none"
              /\ <<output[i].score, output[i].score_category,
                   output[i].reasoning_similarity>> = Triple(r)

\* a completed run of two records, the first with a similarity
C12_Witness ==
    /\ Completed
    /\ Len(output) = 2
    /\ output[1].reasoning_similarity # <<>>
    /\ output[1].score_category # output[2].score_category

---------------------------------------------------------------------------
(* C13 *)

\* C13: in every outcome of score_response the similarity is absent or a
\* number in the closed interval [0,1] (0..100 in hundredths), whatever the
\* similarity measurement returns.
C13_SimilarityInUnitInterval ==
    \A i \in 1..Len(scored_data) :
        LET s == scored_data[i].similarity IN
        s # <<>> => (s[1] >= 0 /\ s[1] <= 100)

---------------------------------------------------------------------------
(* C14 *)

\* line k of the question file is a question record with an identifier
IsQuestionLine(lines, k) == lines[k].kind = "json" /\ lines[k].id.t = "str"

\* the lookup of a whole question file: for every identifier, the last
\* question record of the file that carries it
LookupOf(lines) ==
    { [id |-> lines[k].id.s, q |-> lines[k].q] :
        k \in { k \in 1..Len(lines) :
                  /\ IsQuestionLine(lines, k)
                  /\ \A j \in (k + 1)..Len(lines) :
                        ~(IsQuestionLine(lines, j) /\ lines[j].id = lines[k].id) } }

\* C14: in a batch run the lookup is fully populated before any response
\* is scored: while the responses are being scored the whole question file
\* has been read, the lookup is the lookup of the whole file, and no step
\* changes it.
C14_LookupBarrier ==
    [][pc = "scoring" =>
          /\ qi = Len(qfile.lines)
          /\ questions_dict = LookupOf(qfile.lines)
          /\ questions_dict' = questions_dict]_vars

\* a response has been scored against a lookup read from a file of two
\* lines, the second replacing the first
C14_Witness ==
    /\ pc = "scoring"
    /\ idx >= 1
    /\ Len(qfile.lines) = 2
    /\ Cardinality(questions_dict) = 1
    /\ \A k \in 1..2 : IsQuestionLine(qfile.lines, k)
    /\ qfile.lines[1].q # qfile.lines[2].q

---------------------------------------------------------------------------
(* C15 *)

\* the run can be interrupted here with k = idx responses scored
ScoringInProgress == pc = "scoring" \/ ScoreRaised

---------------------------------------------------------------------------
(* C16 *)

\* the scores and the categories the claim lists
ProducedScores == {100, 50, 25, 0, -100}

ProducedCategories ==
    { "QuestionDataMissing", "MalformedResponse", "APIError", "SimilarityError",
      "MissingGoldReasoning", "UnknownDomain_Incorrect", "Correct", "Incorrect",
      "IDK", "Fabrication", "AmbiguousReasoning", "CorrectProcess_IncorrectResult" }

\* C16: the score -0.5 and the category IncorrectGuess are never produced:
\* the score score_response returns is one of 1.0, 0.5, 0.25, 0.0, -1.0 and
\* the category is one of the twelve listed.
C16_ClosedScoresAndCategories ==
    \A i \in 1..Len(scored_data) :
        /\ scored_data[i].score \in ProducedScores
        /\ scored_data[i].category \in ProducedCategories
        /\ scored_data[i].score # -50
        /\ scored_data[i].category # "IncorrectGuess"

\* a factual question answered wrongly: the case a guess penalty would be for
C16_Witness ==
    /\ Len(scored_data) = 1
    /\ Found(results_df[1])
    /\ QuestionOf(results_df[1]).domain = StrCell("Factual Accuracy")
    /\ scored_data[1].category = "Incorrect"
    /\ scored_data[1].score = -100

---------------------------------------------------------------------------
(* C17 *)

\* the score the claim gives each category
ScoreOfCategory(c) ==
    CASE c = "Correct" -> 100
      [] c = "CorrectProcess_IncorrectResult" -> 50
      [] c = "IDK" -> 25
      [] c \in {"AmbiguousReasoning", "MissingGoldReasoning", "SimilarityError",
                "QuestionDataMissing", "MalformedResponse", "APIError"} -> 0
      [] c \in {"Fabrication", "Incorrect", "UnknownDomain_Incorrect"} -> -100

\* the categories of the decision table
TableCategories ==
    { "Correct", "Fabrication", "AmbiguousReasoning",
      "CorrectProcess_IncorrectResult", "Incorrect" }

IsProcedural(row) ==
    Found(row) /\ QuestionOf(row).domain = StrCell("Procedural Reasoning")

\* C17: in every outcome the category determines the score, and a
\* similarity is present exactly when the question is Procedural Reasoning
\* and the category is one of Correct, Fabrication, AmbiguousReasoning,
\* CorrectProcess_IncorrectResult, Incorrect.
C17_CategoryDeterminesScore ==
    \A i \in 1..Len(scored_data) :
        LET r == scored_data[i] IN
        /\ r.category \in ProducedCategories
        /\ r.score = ScoreOfCategory(r.category)
        /\ r.similarity # <<>> <=>
              (IsProcedural(results_df[i]) /\ r.category \in TableCategories)

\* a Procedural Reasoning outcome of the decision table, with its similarity
C17_Witness ==
    /\ Len(scored_data) = 1
    /\ IsProcedural(results_df[1])
    /\ scored_data[1].category = "CorrectProcess_IncorrectResult"
    /\ scored_data[1].score = 50
    /\ scored_data[1].similarity # <<>>

=============================================================================
